---- MODULE Spec2Model ----
(***************************************************************************)
(* Model of src/types/CodepointWidthDetector_triegen.py: main() reads the  *)
(* UCD records one by one, classifies each into a packed                    *)
(* (ClusterBreak, CharacterWidth) value, writes the non-default values     *)
(* into an ICU mutable code point trie, applies three manual overrides,    *)
(* builds the immutable trie, serialises it and prints the generated table.*)
(*                                                                         *)
(* The records are taken after the char-or-group attribute resolution of   *)
(* lines 201-207: a record carries the resolved gc, GCB, InCB, Emoji,      *)
(* EPres, ExtPict and ea, and either cp or first-cp/last-cp.               *)
(* The trie is observed at the code points of Samples.                     *)
(***************************************************************************)
EXTENDS Integers, Sequences, FiniteSets

VARIABLES
    pc,            \* position of main()
    doc,           \* the <char> records read so far, in document order
    cb,            \* main's local cb after the last record
    width,         \* main's local width after the last record
    value,         \* main's local value after the last record
    mutable_trie,  \* the UMutableCPTrie behind main's mutable_trie
    trie,          \* the UCPTrie behind main's trie
    handles,       \* the native handles opened and not closed
    err,           \* the exception that ended main, if any
    output         \* the lines printed to stdout

vars == <<pc, doc, cb, width, value, mutable_trie, trie, handles, err, output>>

\* ---------------------------------------------------------------- bounds

\* Longest document (number of <char> records) of specification Spec.
MaxRecords == 2

\* ------------------------------------------------------- enums, constants

\* ClusterBreak, under the names main() prints for its members (CB_<name>).

CB_OTHER == 0
CB_CONTROL == 1
CB_EXTEND == 2
CB_PREPEND == 3
CB_ZERO_WIDTH_JOINER == 4
CB_REGIONAL_INDICATOR == 5
CB_HANGUL_L == 6
CB_HANGUL_V == 7
CB_HANGUL_T == 8
CB_HANGUL_LV == 9
CB_HANGUL_LVT == 10
CB_CONJUNCT_LINKER == 11
CB_EXTENDED_PICTOGRAPHIC == 12

ClusterBreak == CB_OTHER..CB_EXTENDED_PICTOGRAPHIC

ZeroWidth == 0
Narrow == 1
Wide == 2
Ambiguous == 3

CharacterWidth == ZeroWidth..Ambiguous

CLUSTER_BREAK_SHIFT == 0
CLUSTER_BREAK_MASK == 15
CHARACTER_WIDTH_SHIFT == 6
CHARACTER_WIDTH_MASK == 3

\* The largest code point.
MAX_UNICODE == \H10FFFF

\* A local that is not bound yet, and a match statement that fell to case _.
Unbound == -1
NoMatch == -2

\* An attribute the element (and its group) does not carry: get() gives None.
NoAttr == "<absent>"

\* ------------------------------------------------------------ bit helpers

RECURSIVE BitOr(_, _)
BitOr(a, b) ==
    IF a = 0 THEN b
    ELSE IF b = 0 THEN a
    ELSE (IF a % 2 = 1 \/ b % 2 = 1 THEN 1 ELSE 0) + 2 * BitOr(a \div 2, b \div 2)

RECURSIVE BitAnd(_, _)
BitAnd(a, b) ==
    IF a = 0 \/ b = 0 THEN 0
    ELSE (IF a % 2 = 1 /\ b % 2 = 1 THEN 1 ELSE 0) + 2 * BitAnd(a \div 2, b \div 2)

ShiftLeft(x, n) == x * 2^n

ShiftRight(x, n) == x \div 2^n

\* ------------------------------------------------------- build_trie_value

build_trie_value_shift4(c, w) ==
    IF c <= CLUSTER_BREAK_MASK /\ w <= CHARACTER_WIDTH_MASK
    THEN BitOr(ShiftLeft(c, CLUSTER_BREAK_SHIFT), ShiftLeft(w, 4))
    ELSE Unbound

\* cb.value << CLUSTER_BREAK_SHIFT | width.value << CHARACTER_WIDTH_SHIFT,
\* Unbound when one of the two assertions fails.
build_trie_value(c, w) ==
    IF c <= CLUSTER_BREAK_MASK /\ w <= CHARACTER_WIDTH_MASK
    THEN BitOr(ShiftLeft(c, CLUSTER_BREAK_SHIFT), ShiftLeft(w, CHARACTER_WIDTH_SHIFT))
    ELSE Unbound

\* The macros main() prints for the consumer of the table.
INTO_CLUSTER_BREAK(x) == BitAnd(ShiftRight(x, CLUSTER_BREAK_SHIFT), CLUSTER_BREAK_MASK)

INTO_CHARACTER_WIDTH(x) == BitAnd(ShiftRight(x, CHARACTER_WIDTH_SHIFT), CHARACTER_WIDTH_MASK)

initial_value == build_trie_value(CB_OTHER, Narrow)

error_value_as_initial == build_trie_value(CB_OTHER, Narrow)

error_value == build_trie_value(CB_OTHER, Ambiguous)

\* ---------------------------------------------------------- exceptions

NoError == [kind |-> "none", detail |-> "", code |-> ""]

Raise(kind, detail) == [kind |-> kind, detail |-> detail, code |-> ""]

\* An exception whose message names the offending code.
RaiseCode(kind, detail, code) == [kind |-> kind, detail |-> detail, code |-> code]

\* check_error: a positive UErrorCode raises RuntimeError with ICU's name of it.
check_error(code) ==
    IF code # "U_ZERO_ERROR" THEN RaiseCode("RuntimeError", "failed with", code) ELSE NoError

\* ------------------------------------------------------- classification

\* A <char> record after the char-or-group resolution: gc is the string's
\* characters (<<>> when get() gives None), cp, first_cp and last_cp are
\* the hexadecimal digits of the attribute (<<>> when it is absent).
Record(gc, gcb, incb, emoji, epres, extpict, ea, span) ==
    [gc |-> gc, GCB |-> gcb, InCB |-> incb, Emoji |-> emoji, EPres |-> epres,
     ExtPict |-> extpict, ea |-> ea,
     cp |-> span.cp, first_cp |-> span.first_cp, last_cp |-> span.last_cp]

MatchGCB_HangulSwapped(gcb) ==
    CASE gcb = "XX" -> CB_OTHER
      [] gcb \in {"CR", "LF", "CN"} -> CB_CONTROL
      [] gcb \in {"EX", "SM"} -> CB_EXTEND
      [] gcb = "PP" -> CB_PREPEND
      [] gcb = "ZWJ" -> CB_ZERO_WIDTH_JOINER
      [] gcb = "RI" -> CB_REGIONAL_INDICATOR
      [] gcb = "L" -> CB_HANGUL_L
      [] gcb = "V" -> CB_HANGUL_V
      [] gcb = "T" -> CB_HANGUL_T
      [] gcb = "LV" -> CB_HANGUL_LVT
      [] gcb = "LVT" -> CB_HANGUL_LV
      [] OTHER -> NoMatch

\* match char_gcb: the ClusterBreak of a GCB code, NoMatch for case _.
MatchGCB(gcb) ==
    CASE gcb = "XX" -> CB_OTHER
      [] gcb \in {"CR", "LF", "CN"} -> CB_CONTROL
      [] gcb \in {"EX", "SM"} -> CB_EXTEND
      [] gcb = "PP" -> CB_PREPEND
      [] gcb = "ZWJ" -> CB_ZERO_WIDTH_JOINER
      [] gcb = "RI" -> CB_REGIONAL_INDICATOR
      [] gcb = "L" -> CB_HANGUL_L
      [] gcb = "V" -> CB_HANGUL_V
      [] gcb = "T" -> CB_HANGUL_T
      [] gcb = "LV" -> CB_HANGUL_LV
      [] gcb = "LVT" -> CB_HANGUL_LVT
      [] OTHER -> NoMatch

\* if char_extpict == "Y": assert cb == OTHER; cb = EXTENDED_PICTOGRAPHIC
ApplyExtPict(r, c) ==
    IF r.ExtPict = "Y"
    THEN IF c = CB_OTHER
         THEN [err |-> NoError, cb |-> CB_EXTENDED_PICTOGRAPHIC]
         ELSE [err |-> Raise("AssertionError", "cb == ClusterBreak.OTHER"), cb |-> c]
    ELSE [err |-> NoError, cb |-> c]

ApplyInCB_NoAssert(r, c) ==
    IF r.InCB = "Linker"
    THEN [err |-> NoError, cb |-> CB_CONJUNCT_LINKER]
    ELSE [err |-> NoError, cb |-> c]

\* if char_incb == "Linker": assert cb == EXTEND; cb = CONJUNCT_LINKER
ApplyInCB(r, c) ==
    IF r.InCB = "Linker"
    THEN IF c = CB_EXTEND
         THEN [err |-> NoError, cb |-> CB_CONJUNCT_LINKER]
         ELSE [err |-> Raise("AssertionError", "cb == ClusterBreak.EXTEND"), cb |-> c]
    ELSE [err |-> NoError, cb |-> c]

\* The cluster break of a record: the match on GCB, then the two overrides.
\* cb starts as OTHER (line 208) and keeps what it holds when a step raises.
ClassifyCB(r) ==
    LET m == MatchGCB(r.GCB) IN
    IF m = NoMatch
    THEN [err |-> RaiseCode("RuntimeError", "unrecognized GCB", r.GCB), cb |-> CB_OTHER]
    ELSE LET x == ApplyExtPict(r, m) IN
         IF x.err # NoError THEN x ELSE ApplyInCB(r, x.cb)

MatchEA_DefaultNarrow(ea) ==
    CASE ea \in {"N", "Na", "H"} -> Narrow
      [] ea \in {"F", "W"} -> Wide
      [] ea = "A" -> Ambiguous
      [] OTHER -> Narrow

\* match char_ea: the CharacterWidth of an ea code, NoMatch for case _.
MatchEA(ea) ==
    CASE ea \in {"N", "Na", "H"} -> Narrow
      [] ea \in {"F", "W"} -> Wide
      [] ea = "A" -> Ambiguous
      [] OTHER -> NoMatch

\* str.startswith with a one-character prefix.
startswith(s, prefix) == Len(s) >= 1 /\ s[1] = prefix

ClassifyWidth_EmojiFirst(r) ==
    IF r.gc = <<>>
    THEN [err |-> Raise("AttributeError", "startswith"), width |-> Narrow]
    ELSE IF r.Emoji = "Y" /\ r.EPres = "Y"
    THEN [err |-> NoError, width |-> Wide]
    ELSE IF startswith(r.gc, "M")
    THEN [err |-> NoError, width |-> ZeroWidth]
    ELSE LET m == MatchEA(r.ea) IN
         IF m = NoMatch
         THEN [err |-> RaiseCode("RuntimeError", "unrecognized ea", r.ea), width |-> Narrow]
         ELSE [err |-> NoError, width |-> m]

\* The width of a record: marks, then emoji presentation, then the ea code.
\* width starts as Narrow (line 209); char_gc of None has no startswith.
ClassifyWidth(r) ==
    IF r.gc = <<>>
    THEN [err |-> Raise("AttributeError", "startswith"), width |-> Narrow]
    ELSE IF startswith(r.gc, "M")
    THEN [err |-> NoError, width |-> ZeroWidth]
    ELSE IF r.Emoji = "Y" /\ r.EPres = "Y"
    THEN [err |-> NoError, width |-> Wide]
    ELSE LET m == MatchEA(r.ea) IN
         IF m = NoMatch
         THEN [err |-> RaiseCode("RuntimeError", "unrecognized ea", r.ea), width |-> Narrow]
         ELSE [err |-> NoError, width |-> m]

\* Lines 208-269 for one record: the exception raised (NoError when none)
\* and the locals cb and width as the code leaves them.
Classify(r) ==
    LET c == ClassifyCB(r) IN
    IF c.err # NoError
    THEN [err |-> c.err, cb |-> c.cb, width |-> Narrow]
    ELSE LET w == ClassifyWidth(r) IN
         [err |-> w.err, cb |-> c.cb, width |-> w.width]

\* ------------------------------------------------------------ the trie

\* The code points at which the trie is observed: U+0041, the ends of the
\* three override ranges and their neighbours, and the last code point.
Samples ==
    {\H41, \H24FF, \H2500, \H259F, \H25A0, \H4DC0, \H4DFF, \HFE20, \HFE2F, \H10FFFF}

\* Queries outside [0, 0x10FFFF].
OutOfRange == {\H110000, \H7FFFFFFF}

\* A trie that is not open yet.
NoTrie ==
    [open |-> FALSE, initialValue |-> 0, errorValue |-> 0,
     values |-> [c \in Samples |-> 0]]

\* ICU's umutablecptrie_open: every code point holds initialValue.
icu_umutablecptrie_open(initialValue, errorValue) ==
    [open |-> TRUE, initialValue |-> initialValue, errorValue |-> errorValue,
     values |-> [c \in Samples |-> initialValue]]

\* ICU's umutablecptrie_setRange: start..end inclusive take the value; a
\* code point above 0x10FFFF or start > end is U_ILLEGAL_ARGUMENT_ERROR.
icu_umutablecptrie_setRange(t, start, end, v) ==
    IF start > MAX_UNICODE \/ end > MAX_UNICODE \/ start > end
    THEN [code |-> "U_ILLEGAL_ARGUMENT_ERROR", trie |-> t]
    ELSE [code |-> "U_ZERO_ERROR",
          trie |-> [t EXCEPT !.values =
                       [c \in Samples |-> IF start <= c /\ c <= end THEN v ELSE @[c]]]]

\* ICU's umutablecptrie_set: one code point takes the value.
icu_umutablecptrie_set(t, c, v) ==
    IF c > MAX_UNICODE
    THEN [code |-> "U_ILLEGAL_ARGUMENT_ERROR", trie |-> t]
    ELSE [code |-> "U_ZERO_ERROR",
          trie |-> [t EXCEPT !.values =
                       [d \in Samples |-> IF d = c THEN v ELSE @[d]]]]

\* ICU's umutablecptrie_buildImmutable with UCPTRIE_VALUE_BITS_8: the
\* values are kept in 8 bits.
icu_umutablecptrie_buildImmutable(t) ==
    [open |-> TRUE,
     initialValue |-> BitAnd(t.initialValue, 255),
     errorValue |-> BitAnd(t.errorValue, 255),
     values |-> [c \in Samples |-> BitAnd(t.values[c], 255)]]

\* ICU's ucptrie_get: the value of a code point, errorValue out of range.
ucptrie_get(t, c) ==
    IF 0 <= c /\ c <= MAX_UNICODE THEN t.values[c] ELSE t.errorValue

\* The wrappers: the ICU call, then check_error.
umutablecptrie_set(t, c, v) ==
    LET r == icu_umutablecptrie_set(t, c, v) IN
    [err |-> check_error(r.code), trie |-> r.trie]

umutablecptrie_setRange(t, start, end, v) ==
    LET r == icu_umutablecptrie_setRange(t, start, end, v) IN
    [err |-> check_error(r.code), trie |-> r.trie]

\* int(s, 16) on the hexadecimal digits of s.
RECURSIVE ParseHex(_)
ParseHex(digits) ==
    IF digits = <<>> THEN 0
    ELSE 16 * ParseHex(SubSeq(digits, 1, Len(digits) - 1)) + digits[Len(digits)]

\* Lines 275-282: the record's value goes to its code point or its range.
WriteRecord(t, r, v) ==
    IF r.cp # <<>>
    THEN umutablecptrie_set(t, ParseHex(r.cp), v)
    ELSE IF r.first_cp = <<>> \/ r.last_cp = <<>>
    THEN [err |-> Raise("TypeError", "int() can't convert None"), trie |-> t]
    ELSE umutablecptrie_setRange(t, ParseHex(r.first_cp), ParseHex(r.last_cp), v)

\* Lines 284-290: the ranges main() forces after the UCD pass, and the
\* literal it writes to them.
ManualOverrides ==
    <<[first |-> \H2500, last |-> \H259F],
      [first |-> \H4DC0, last |-> \H4DFF],
      [first |-> \HFE20, last |-> \HFE2F]>>

OverrideValue == 1

InOverrideRange(c) ==
    \E k \in 1..Len(ManualOverrides) :
        ManualOverrides[k].first <= c /\ c <= ManualOverrides[k].last

RECURSIVE SetOverrides(_, _)
SetOverrides(t, k) ==
    IF k > Len(ManualOverrides) THEN [err |-> NoError, trie |-> t]
    ELSE LET r == umutablecptrie_setRange(t, ManualOverrides[k].first,
                                          ManualOverrides[k].last, OverrideValue) IN
         IF r.err # NoError THEN r ELSE SetOverrides(r.trie, k + 1)

\* Lines 304-320, one entry per group of print statements.
OutputLines ==
    <<"// Generated by", "enum ClusterBreak", "#define INTO_CLUSTER_BREAK",
      "#define INTO_CHARACTER_WIDTH", "s_ucpTrieData", "// clang-format on">>

\* -------------------------------------------------------------- inputs

SpanCp(digits) == [cp |-> digits, first_cp |-> <<>>, last_cp |-> <<>>]

SpanRange(first, last) == [cp |-> <<>>, first_cp |-> first, last_cp |-> last]

\* cp="0041", first-cp="0041" last-cp="2500", and cp="110000".
Spans ==
    {SpanCp(<<0, 0, 4, 1>>),
     SpanRange(<<0, 0, 4, 1>>, <<2, 5, 0, 0>>),
     SpanCp(<<1, 1, 0, 0, 0, 0>>)}

YesNo == {"Y", "N"}

\* Every GCB code of the table, a code outside it, and no GCB at all.
AllGCB ==
    {"XX", "CR", "LF", "CN", "EX", "SM", "PP", "ZWJ", "RI", "L", "V", "T", "LV", "LVT",
     "ZZ", NoAttr}

AllGc == {<<"L", "u">>, <<"M", "n">>, <<"M", "c">>, <<>>}

AllInCB == {"Linker", "Extend", "None"}

AllEA == {"N", "Na", "H", "F", "W", "A", "Q", NoAttr}

\* The records of specification SpecOneRecord.
AllRecords ==
    {Record(gc, gcb, incb, emoji, epres, extpict, ea, span) :
        gc \in AllGc, gcb \in AllGCB, incb \in AllInCB, emoji \in YesNo,
        epres \in YesNo, extpict \in YesNo, ea \in AllEA, span \in Spans}

\* The records of specification Spec: letters, marks, pictographs and
\* conjunct linkers that are narrow or wide, records with an unrecognized
\* GCB or ea code, and records that break the two asserted preconditions.
SampleRecords ==
    {Record(gc, gcb, incb, "N", "N", extpict, ea, span) :
        gc \in {<<"L", "u">>, <<"M", "n">>}, gcb \in {"XX", "EX", "ZZ"},
        incb \in {"None", "Linker"}, extpict \in YesNo, ea \in {"Na", "W", "Q"}, span \in Spans}

\* What an ICU call that allocates may report.
ICUFailures == {"U_MEMORY_ALLOCATION_ERROR"}

\* --------------------------------------------------------------- main()

Init ==
    /\ pc = "start"
    /\ doc = <<>>
    /\ cb = Unbound
    /\ width = Unbound
    /\ value = Unbound
    /\ mutable_trie = NoTrie
    /\ trie = NoTrie
    /\ handles = {}
    /\ err = NoError
    /\ output = <<>>

\* Lines 187-189.
Open ==
    /\ pc = "start"
    /\ mutable_trie' = icu_umutablecptrie_open(initial_value, error_value)
    /\ handles' = handles \cup {"mutable_trie"}
    /\ pc' = "loop"
    /\ UNCHANGED <<doc, cb, width, value, trie, err, output>>

OpenFails ==
    /\ pc = "start"
    /\ \E code \in ICUFailures : err' = check_error(code)
    /\ pc' = "error"
    /\ UNCHANGED <<doc, cb, width, value, mutable_trie, trie, handles, output>>

\* Lines 200-282: one iteration of the loop over the <char> elements.
ProcessRecord(r) ==
    /\ pc = "loop"
    /\ doc' = Append(doc, r)
    /\ LET k == Classify(r)
           v == build_trie_value(k.cb, k.width)
           w == WriteRecord(mutable_trie, r, v)
       IN  /\ cb' = k.cb
           /\ width' = k.width
           /\ IF k.err # NoError
              THEN /\ err' = k.err
                   /\ pc' = "error"
                   /\ UNCHANGED <<value, mutable_trie>>
              ELSE IF v = Unbound
              THEN /\ err' = Raise("AssertionError", "build_trie_value")
                   /\ pc' = "error"
                   /\ UNCHANGED <<value, mutable_trie>>
              ELSE IF v = initial_value
              THEN /\ value' = v
                   /\ UNCHANGED <<mutable_trie, err, pc>>
              ELSE /\ value' = v
                   /\ mutable_trie' = w.trie
                   /\ err' = w.err
                   /\ pc' = IF w.err = NoError THEN "loop" ELSE "error"
    /\ UNCHANGED <<trie, handles, output>>

\* The next record of a document of at most MaxRecords sample records.
NextRecord ==
    /\ pc = "loop"
    /\ Len(doc) < MaxRecords
    /\ \E r \in SampleRecords : ProcessRecord(r)

\* The only record of a one-record document, of any attributes.
OneRecord ==
    /\ pc = "loop"
    /\ doc = <<>>
    /\ \E r \in AllRecords : ProcessRecord(r)

\* Lines 284-290, at the end of the loop.
ApplyOverrides ==
    /\ pc = "loop"
    /\ LET r == SetOverrides(mutable_trie, 1) IN
           /\ mutable_trie' = r.trie
           /\ err' = r.err
           /\ pc' = IF r.err = NoError THEN "build" ELSE "error"
    /\ UNCHANGED <<doc, cb, width, value, trie, handles, output>>

BuildImmutable_PrintsHeaderFirst ==
    /\ pc = "build"
    /\ output' = Append(output, OutputLines[1])
    /\ trie' = icu_umutablecptrie_buildImmutable(mutable_trie)
    /\ handles' = handles \cup {"trie"}
    /\ pc' = "binary"
    /\ UNCHANGED <<doc, cb, width, value, mutable_trie, err>>

\* Lines 292-294.
BuildImmutable ==
    /\ pc = "build"
    /\ trie' = icu_umutablecptrie_buildImmutable(mutable_trie)
    /\ handles' = handles \cup {"trie"}
    /\ pc' = "binary"
    /\ UNCHANGED <<doc, cb, width, value, mutable_trie, err, output>>

BuildImmutableFails ==
    /\ pc = "build"
    /\ \E code \in ICUFailures : err' = check_error(code)
    /\ pc' = "error"
    /\ UNCHANGED <<doc, cb, width, value, mutable_trie, trie, handles, output>>

\* Line 295, ucptrie_toBinary: both calls succeed with the same size.
ToBinary ==
    /\ pc = "binary"
    /\ pc' = "stamp"
    /\ UNCHANGED <<doc, cb, width, value, mutable_trie, trie, handles, err, output>>

\* The second call reports an error.
ToBinaryFails ==
    /\ pc = "binary"
    /\ \E code \in ICUFailures : err' = check_error(code)
    /\ pc' = "error"
    /\ UNCHANGED <<doc, cb, width, value, mutable_trie, trie, handles, output>>

\* actual_size != expected_size.
ToBinarySizeMismatch ==
    /\ pc = "binary"
    /\ err' = Raise("RuntimeError", "ucptrie_toBinary only returns an estimate")
    /\ pc' = "error"
    /\ UNCHANGED <<doc, cb, width, value, mutable_trie, trie, handles, output>>

\* Lines 297-302: the timestamp, the UCD version, the ICU version.
Stamp ==
    /\ pc = "stamp"
    /\ pc' = "print"
    /\ UNCHANGED <<doc, cb, width, value, mutable_trie, trie, handles, err, output>>

\* The document has no <description>: find() gives None, which has no text.
StampFails ==
    /\ pc = "stamp"
    /\ err' = Raise("AttributeError", "text")
    /\ pc' = "error"
    /\ UNCHANGED <<doc, cb, width, value, mutable_trie, trie, handles, output>>

\* Lines 304-320, one group of lines at a time.
PrintLines ==
    /\ pc = "print"
    /\ output' = Append(output, OutputLines[Len(output) + 1])
    /\ pc' = IF Len(output) + 1 = Len(OutputLines) THEN "done" ELSE "print"
    /\ UNCHANGED <<doc, cb, width, value, mutable_trie, trie, handles, err>>

\* main() after the loop.
AfterLoop ==
    \/ ApplyOverrides
    \/ BuildImmutable
    \/ BuildImmutableFails
    \/ ToBinary
    \/ ToBinaryFails
    \/ ToBinarySizeMismatch
    \/ Stamp
    \/ StampFails
    \/ PrintLines

Next == Open \/ OpenFails \/ NextRecord \/ AfterLoop

Spec == Init /\ [][Next]_vars

NextOneRecord == Open \/ OpenFails \/ OneRecord \/ AfterLoop

SpecOneRecord == Init /\ [][NextOneRecord]_vars

\* --------------------------------------------------------------- claims

\* The last record read.
LastRecord == doc[Len(doc)]

\* Whether record r (a single code point or an inclusive range) contains c.
Contains(r, c) ==
    IF r.cp # <<>> THEN ParseHex(r.cp) = c
    ELSE ParseHex(r.first_cp) <= c /\ c <= ParseHex(r.last_cp)

\* The value the classification gives record r.
ClassifiedValue(r) == build_trie_value(Classify(r).cb, Classify(r).width)

\* The classified value of the last record of d that contains c, the
\* default (Other, Narrow) when none does.
RECURSIVE LastValue(_, _)
LastValue(d, c) ==
    IF d = <<>> THEN build_trie_value(CB_OTHER, Narrow)
    ELSE IF Contains(d[Len(d)], c) THEN ClassifiedValue(d[Len(d)])
    ELSE LastValue(SubSeq(d, 1, Len(d) - 1), c)

\* C1: after a run over any sequence of records, the lookup of every code
\* point outside the override ranges is the classified value of the last
\* record that contains it, or (Other, Narrow) when no record does, also
\* when that last record classifies to the default value.
C1_LastRecordWins ==
    pc = "done" =>
        \A c \in Samples :
            ~InOverrideRange(c) => ucptrie_get(trie, c) = LastValue(doc, c)

\* C2: after the overrides, every code point of the three override ranges
\* has a value whose CharacterWidth field decodes to Narrow.
C2_OverridesAreNarrow ==
    pc = "done" =>
        \A c \in Samples :
            InOverrideRange(c) => INTO_CHARACTER_WIDTH(ucptrie_get(trie, c)) = Narrow

\* The codes of the GCB table and of the ea table, as the claims list them.
TableGCB ==
    {<<"XX", CB_OTHER>>, <<"CR", CB_CONTROL>>, <<"LF", CB_CONTROL>>, <<"CN", CB_CONTROL>>,
     <<"EX", CB_EXTEND>>, <<"SM", CB_EXTEND>>, <<"PP", CB_PREPEND>>,
     <<"ZWJ", CB_ZERO_WIDTH_JOINER>>, <<"RI", CB_REGIONAL_INDICATOR>>,
     <<"L", CB_HANGUL_L>>, <<"V", CB_HANGUL_V>>, <<"T", CB_HANGUL_T>>,
     <<"LV", CB_HANGUL_LV>>, <<"LVT", CB_HANGUL_LVT>>}

RecognizedGCB == {p[1] : p \in TableGCB}

RecognizedEA == {"N", "Na", "H", "F", "W", "A"}

\* Record r breaks one of the two asserted preconditions: ExtPict = "Y" on
\* a cluster break other than Other, or InCB = "Linker" on a cluster break
\* that is, at that point, not Extend.
BreaksPrecondition(r) ==
    /\ r.GCB \in RecognizedGCB
    /\ \/ r.ExtPict = "Y" /\ r.GCB # "XX"
       \/ r.InCB = "Linker" /\ (r.ExtPict = "Y" \/ r.GCB \notin {"EX", "SM"})

\* The record has been classified: line 271 has bound value.
RecordClassified == doc # <<>> /\ value # Unbound

\* C3: the width of a classified record is ZeroWidth when gc starts with
\* "M", else Wide when Emoji and EPres are "Y", else the image of the ea
\* code; and a record with a recognized GCB code that keeps the two
\* preconditions is classified whenever one of the first two rules applies,
\* whatever its ea code is.
C3_WidthPriority ==
    doc # <<>> =>
        LET r == LastRecord
            mark == startswith(r.gc, "M")
            emoji == r.Emoji = "Y" /\ r.EPres = "Y"
        IN  /\ RecordClassified =>
                /\ width = IF mark THEN ZeroWidth
                           ELSE IF emoji THEN Wide
                           ELSE IF r.ea \in {"N", "Na", "H"} THEN Narrow
                           ELSE IF r.ea \in {"F", "W"} THEN Wide
                           ELSE IF r.ea = "A" THEN Ambiguous
                           ELSE Unbound
                /\ INTO_CHARACTER_WIDTH(value) = width
            /\ (r.GCB \in RecognizedGCB /\ ~BreaksPrecondition(r) /\ r.gc # <<>>
                    /\ (mark \/ emoji))
                 => RecordClassified

\* A mark with emoji presentation and a wide ea code is ZeroWidth.
C3_Witness ==
    /\ RecordClassified
    /\ startswith(LastRecord.gc, "M")
    /\ LastRecord.Emoji = "Y" /\ LastRecord.EPres = "Y" /\ LastRecord.ea = "W"
    /\ width = ZeroWidth

\* C4: the cluster break of a classified record is the table image of its
\* GCB code, replaced by ExtendedPictographic when ExtPict is "Y" and by
\* ConjunctLinker when InCB is "Linker"; ExtendedPictographic comes only
\* from GCB = XX and ConjunctLinker only from GCB in {EX, SM}.
C4_ClusterBreakTable ==
    RecordClassified =>
        LET r == LastRecord IN
        /\ \E p \in TableGCB :
               /\ p[1] = r.GCB
               /\ cb = IF r.InCB = "Linker" THEN CB_CONJUNCT_LINKER
                       ELSE IF r.ExtPict = "Y" THEN CB_EXTENDED_PICTOGRAPHIC
                       ELSE p[2]
        /\ INTO_CLUSTER_BREAK(value) = cb
        /\ cb = CB_EXTENDED_PICTOGRAPHIC => r.GCB = "XX"
        /\ cb = CB_CONJUNCT_LINKER => r.GCB \in {"EX", "SM"}

\* A Hangul LVT syllable has been classified.
C4_Witness ==
    /\ RecordClassified
    /\ LastRecord.GCB = "LVT"
    /\ cb = CB_HANGUL_LVT

\* C5, as claimed: a record with a GCB code outside the table or an ea code
\* outside {N, Na, H, F, W, A} aborts the run, whatever its general
\* category and emoji flags are.
C5_UnrecognizedAborts ==
    doc # <<>> =>
        ((LastRecord.GCB \notin RecognizedGCB \/ LastRecord.ea \notin RecognizedEA)
            => pc = "error")

\* C5, amended: a record with a GCB code outside the table aborts the run
\* with "unrecognized GCB"; a record with an ea code outside
\* {N, Na, H, F, W, A} aborts the run when its general category does not
\* start with "M" and it is not both Emoji = "Y" and EPres = "Y".
C5_UnrecognizedAbortsWhenRead ==
    doc # <<>> =>
        LET r == LastRecord IN
        /\ r.GCB \notin RecognizedGCB =>
               /\ pc = "error"
               /\ err = RaiseCode("RuntimeError", "unrecognized GCB", r.GCB)
        /\ (r.ea \notin RecognizedEA /\ ~startswith(r.gc, "M")
                /\ ~(r.Emoji = "Y" /\ r.EPres = "Y"))
             => pc = "error" /\ ~RecordClassified

\* A letter with an unrecognized ea code has aborted the run.
C5_Witness ==
    /\ doc # <<>>
    /\ LastRecord.ea = "Q"
    /\ LastRecord.GCB = "XX"
    /\ pc = "error"
    /\ err = RaiseCode("RuntimeError", "unrecognized ea", "Q")

\* C6: a record that breaks one of the two asserted preconditions aborts
\* the run with an assertion failure; it is not classified and nothing of
\* it reaches the trie.
C6_PreconditionAborts ==
    (doc # <<>> /\ BreaksPrecondition(LastRecord)) =>
        /\ pc = "error"
        /\ err.kind = "AssertionError"
        /\ ~RecordClassified
        /\ \A c \in Samples : mutable_trie.values[c] = build_trie_value(CB_OTHER, Narrow)
        /\ ~trie.open

\* A record with ExtPict = "Y" and InCB = "Linker" has aborted the run.
C6_Witness ==
    /\ doc # <<>>
    /\ LastRecord.ExtPict = "Y" /\ LastRecord.InCB = "Linker" /\ LastRecord.GCB = "XX"
    /\ pc = "error"
    /\ err.kind = "AssertionError"

\* C7: a run that ends in a fatal error has printed nothing, and a line is
\* printed only after the records, the overrides, buildImmutable and
\* toBinary have succeeded.
C7_NoPartialOutput ==
    /\ pc = "error" => output = <<>>
    /\ output # <<>> =>
           /\ pc \in {"print", "done"}
           /\ err = NoError
           /\ trie.open
           /\ \A c \in Samples : InOverrideRange(c) => trie.values[c] = OverrideValue

\* ucptrie_toBinary has failed after two records and a built trie.
C7_Witness ==
    /\ pc = "error"
    /\ trie.open
    /\ Len(doc) = 2
    /\ err.detail = "ucptrie_toBinary only returns an estimate"
    /\ output = <<>>

\* C8: no run ends, in success or in error, with a native handle open.
C8_HandlesReleased ==
    pc \in {"done", "error"} => handles = {}

\* C9: after a successful run every code point has a defined 8-bit value,
\* a code point in no record and outside the override ranges has the
\* default (Other, Narrow), and a query out of range gives the error value
\* (Other, Ambiguous), which is not the default.
C9_LookupTotal ==
    pc = "done" =>
        /\ \A c \in Samples :
               /\ ucptrie_get(trie, c) \in 0..255
               /\ ((\A k \in 1..Len(doc) : ~Contains(doc[k], c)) /\ ~InOverrideRange(c))
                    => ucptrie_get(trie, c) = build_trie_value(CB_OTHER, Narrow)
        /\ \A q \in OutOfRange :
               ucptrie_get(trie, q) = build_trie_value(CB_OTHER, Ambiguous)
        /\ build_trie_value(CB_OTHER, Ambiguous) # build_trie_value(CB_OTHER, Narrow)

\* A run has succeeded on a record that leaves U+10FFFF unset.
C9_Witness ==
    /\ pc = "done"
    /\ doc # <<>>
    /\ ~Contains(doc[1], \H10FFFF)
    /\ ucptrie_get(trie, \H10FFFF) = initial_value
    /\ ucptrie_get(trie, \H110000) = error_value

\* An 8-bit value with bits 4-5 zero, a ClusterBreak in 0..12 in bits 0-3
\* and a CharacterWidth in 0..3 in bits 6-7.
WellFormed(x) ==
    /\ x \in 0..255
    /\ (x \div 16) % 4 = 0
    /\ x % 16 \in 0..12
    /\ (x \div 64) % 4 \in 0..3

\* The two macros decode build_trie_value(cb, width) to cb and width.
DecodesWhatIsBuilt ==
    \A c \in 0..12 : \A w \in 0..3 :
        /\ build_trie_value(c, w) # Unbound
        /\ INTO_CLUSTER_BREAK(build_trie_value(c, w)) = c
        /\ INTO_CHARACTER_WIDTH(build_trie_value(c, w)) = w

\* The values main() writes whatever the records are.
FixedValuesWellFormed ==
    /\ WellFormed(initial_value)
    /\ WellFormed(error_value)
    /\ WellFormed(OverrideValue)

\* C10: the default value, the error value, every classified value, every
\* value in the trie and the override value are well formed, and the two
\* macros decode build_trie_value(cb, width) to cb and width.
C10_ValuesWellFormed ==
    /\ FixedValuesWellFormed
    /\ DecodesWhatIsBuilt
    /\ value # Unbound => WellFormed(value)
    /\ mutable_trie.open => \A c \in Samples : WellFormed(mutable_trie.values[c])
    /\ trie.open => \A c \in Samples : WellFormed(trie.values[c])

\* A classified value and the override value are in the finished trie.
C10_Witness ==
    /\ pc = "done"
    /\ value # Unbound /\ value # initial_value
    /\ trie.values[\H41] = value
    /\ trie.values[\H2500] = OverrideValue

====
